---- MODULE Spec2Model ----
(***************************************************************************)
(* Model of scripts/task_lib.py: the task store kept in .tasks/tasks.json. *)
(*                                                                         *)
(* Every public function of the library is an operator that takes the      *)
(* backing file (and its arguments) and yields a call record               *)
(*   [file, value, exc, saves]                                             *)
(* : the file after the call, the returned value, the raised exception     *)
(* (None when the call returned) and the number of save_tasks calls made.  *)
(* One action per public function applies the operator to the state.       *)
(*                                                                         *)
(* Python values: None is <<>> and a present Optional value v is <<v>>;    *)
(* a dict is a function on its keys; a list is a sequence.  The strings    *)
(* that the code orders (created) are sequences of characters compared by  *)
(* code point, as Python compares str.                                     *)
(***************************************************************************)
EXTENDS Integers, Sequences, FiniteSets

VARIABLES file,      \* content of TASKS_FILE: None when the file is absent
          today,     \* day of the month date.today() falls on
          last,      \* the most recent call: its name, arguments and outcome
          returned,  \* history: the ids add_task has returned, in call order
          writers,   \* per process: where its add_task call stands, and its locals
          overlapped \* history: two add_task calls have run at the same time

vars == <<file, today, last, returned, writers, overlapped>>

\* ---------------------------------------------------------------- bounds
MaxAdds == 2       \* add_task calls that return an id, all operations allowed
MaxSeqAdds == 4    \* the same where only some of the operations are called
MaxTicks == 1      \* midnights that pass
MaxStored == 3     \* tasks of a document that is queried
MaxRaceAdds == 3   \* add_task calls that two processes start between them

\* ---------------------------------------------------------------- values
None == <<>>
Some(v) == <<v>>

Get(d, k, default) == IF k \in DOMAIN d THEN d[k] ELSE default

Max(S) == CHOOSE m \in S : \A x \in S : x <= m

Range(s) == {s[i] : i \in 1..Len(s)}

\* ------------------------------------------------ str(date.today())
Digit(n) == <<"0", "1", "2", "3", "4", "5", "6", "7", "8", "9">>[n + 1]

Pad2(n) == <<Digit(n \div 10), Digit(n % 10)>>

\* date.isoformat of a day of November 2026: zero-padded YYYY-MM-DD
isoformat(day) == <<"2", "0", "2", "6", "-", "1", "1", "-">> \o Pad2(day)

\* code point order of the characters that occur in the model's strings
Ord(c) == CASE c = "-" -> 45
            [] c = "0" -> 48 [] c = "1" -> 49 [] c = "2" -> 50
            [] c = "3" -> 51 [] c = "4" -> 52 [] c = "5" -> 53
            [] c = "6" -> 54 [] c = "7" -> 55 [] c = "8" -> 56
            [] c = "9" -> 57

\* Python's str <: lexicographic by code point, a proper prefix is smaller
StrLess(a, b) ==
  \E i \in 1..(Len(b)) :
     /\ \A j \in 1..(i - 1) : j <= Len(a) /\ a[j] = b[j]
     /\ \/ i = Len(a) + 1
        \/ i <= Len(a) /\ Ord(a[i]) < Ord(b[i])

\* ---------------------------------------------------------- persistence
\* json.dump / json.load: the text of a document, and the document of a text
json_dump(data) == [json |-> data]

json_load(text) == text.json

\* save_tasks(data): overwrite the file with the serialized document
save_tasks(data) == Some(json_dump(data))

EmptyDocument == [version |-> "1.0", tasks |-> <<>>]

\* init_tasks() that does not look whether the file exists
init_tasks_overwrite(f) ==
  [file |-> save_tasks(EmptyDocument), value |-> None, exc |-> None, saves |-> 1]

\* init_tasks() that writes the bare list, without the version
init_tasks_without_version(f) ==
  IF f = None
    THEN [file |-> save_tasks([tasks |-> <<>>]), value |-> None, exc |-> None,
          saves |-> 1]
    ELSE [file |-> f, value |-> None, exc |-> None, saves |-> 0]

\* init_tasks(): write a fresh document if the file does not exist
init_tasks(f) ==
  IF f = None
    THEN [file |-> save_tasks(EmptyDocument), value |-> None, exc |-> None, saves |-> 1]
    ELSE [file |-> f, value |-> None, exc |-> None, saves |-> 0]

\* load_tasks(): init_tasks(), then parse the file; value is the document
load_tasks(f) ==
  LET i == init_tasks(f)
  IN  [file |-> i.file, value |-> json_load(i.file[1]), exc |-> None, saves |-> i.saves]

\* the ids of a task list
ids(tasks) == {tasks[i].id : i \in 1..Len(tasks)}

\* next_id() that forgets the + 1
next_id_no_increment(f) ==
  LET l == load_tasks(f)
      data == l.value
  IN  [file |-> l.file,
       value |-> IF data.tasks = <<>> THEN 1 ELSE Max(ids(data.tasks)),
       exc |-> None, saves |-> l.saves]

\* next_id() that takes the id of the first task for the largest
next_id_after_first(f) ==
  LET l == load_tasks(f)
      data == l.value
  IN  [file |-> l.file,
       value |-> IF data.tasks = <<>> THEN 1 ELSE data.tasks[1].id + 1,
       exc |-> None, saves |-> l.saves]

\* next_id() that counts the tasks
next_id_by_count(f) ==
  LET l == load_tasks(f)
      data == l.value
  IN  [file |-> l.file, value |-> Len(data.tasks) + 1, exc |-> None, saves |-> l.saves]

\* next_id(): 1 for an empty list, else the largest id plus one
next_id(f) ==
  LET l == load_tasks(f)
      data == l.value
  IN  [file |-> l.file,
       value |-> IF data.tasks = <<>> THEN 1 ELSE Max(ids(data.tasks)) + 1,
       exc |-> None, saves |-> l.saves]

\* the record of add_task, with the caller's id let through
new_task_id_from_input(task, task_id, day) ==
  [id |-> Get(task, "id", task_id),
   title |-> task["title"],
   description |-> Get(task, "description", ""),
   component |-> task["component"],
   priority |-> Get(task, "priority", "medium"),
   tags |-> Get(task, "tags", <<>>),
   status |-> "pending",
   created |-> isoformat(day),
   started |-> None,
   notes |-> Get(task, "notes", ""),
   acceptance |-> Get(task, "acceptance", <<>>)]

\* the record of add_task, with the caller's status let through
new_task_status_from_input(task, task_id, day) ==
  [id |-> task_id,
   title |-> task["title"],
   description |-> Get(task, "description", ""),
   component |-> task["component"],
   priority |-> Get(task, "priority", "medium"),
   tags |-> Get(task, "tags", <<>>),
   status |-> Get(task, "status", "pending"),
   created |-> isoformat(day),
   started |-> None,
   notes |-> Get(task, "notes", ""),
   acceptance |-> Get(task, "acceptance", <<>>)]

\* the record add_task builds: the input's fields or their defaults, and the
\* fields the store sets
new_task(task, task_id, day) ==
  [id |-> task_id,
   title |-> task["title"],
   description |-> Get(task, "description", ""),
   component |-> task["component"],
   priority |-> Get(task, "priority", "medium"),
   tags |-> Get(task, "tags", <<>>),
   status |-> "pending",
   created |-> isoformat(day),
   started |-> None,
   notes |-> Get(task, "notes", ""),
   acceptance |-> Get(task, "acceptance", <<>>)]

\* add_task(task) that reads component as task.get("component", "")
add_task_default_component(f, task, day) ==
  LET l == load_tasks(f)
      data == l.value
      n == next_id(l.file)
      task_id == n.value
      filled == [k \in DOMAIN task \cup {"component"} |->
                   IF k \in DOMAIN task THEN task[k] ELSE ""]
  IN  IF "title" \notin DOMAIN task
        THEN [file |-> n.file, value |-> None, exc |-> Some("KeyError"),
              saves |-> l.saves + n.saves]
        ELSE [file |-> save_tasks([data EXCEPT
                                     !.tasks = Append(@, new_task(filled, task_id, day))]),
              value |-> Some(task_id), exc |-> None,
              saves |-> l.saves + n.saves + 1]

\* add_task(task) that puts the record in front: tasks.insert(0, new_task)
add_task_insert_first(f, task, day) ==
  LET l == load_tasks(f)
      data == l.value
      n == next_id(l.file)
      task_id == n.value
  IN  IF "title" \notin DOMAIN task \/ "component" \notin DOMAIN task
        THEN [file |-> n.file, value |-> None, exc |-> Some("KeyError"),
              saves |-> l.saves + n.saves]
        ELSE [file |-> save_tasks([data EXCEPT
                                     !.tasks = <<new_task(task, task_id, day)>> \o @]),
              value |-> Some(task_id), exc |-> None,
              saves |-> l.saves + n.saves + 1]

\* add_task(task): load, allocate the id, build the record (a KeyError when a
\* required field is missing), append it, save
add_task(f, task, day) ==
  LET l == load_tasks(f)
      data == l.value
      n == next_id(l.file)
      task_id == n.value
  IN  IF "title" \notin DOMAIN task \/ "component" \notin DOMAIN task
        THEN [file |-> n.file, value |-> None, exc |-> Some("KeyError"),
              saves |-> l.saves + n.saves]
        ELSE [file |-> save_tasks([data EXCEPT
                                     !.tasks = Append(@, new_task(task, task_id, day))]),
              value |-> Some(task_id), exc |-> None,
              saves |-> l.saves + n.saves + 1]

\* index of the first task whose id is task_id, 0 when there is none
first_match(tasks, task_id) ==
  IF \E i \in 1..Len(tasks) : tasks[i].id = task_id
    THEN CHOOSE i \in 1..Len(tasks) :
           /\ tasks[i].id = task_id
           /\ \A j \in 1..(i - 1) : tasks[j].id # task_id
    ELSE 0

\* find_task(task_id): the first task with that id, or None
find_task(f, task_id) ==
  LET l == load_tasks(f)
      data == l.value
      i == first_match(data.tasks, task_id)
  IN  [file |-> l.file,
       value |-> IF i = 0 THEN None ELSE Some(data.tasks[i]),
       exc |-> None, saves |-> l.saves]

\* dict.update: every key of updates is set, the other keys are kept
dict_update(task, updates) ==
  [k \in DOMAIN task \cup DOMAIN updates |->
     IF k \in DOMAIN updates THEN updates[k] ELSE task[k]]

\* update_task(task_id, updates) that saves behind the loop, found or not
update_task_save_on_miss(f, task_id, updates) ==
  LET l == load_tasks(f)
      data == l.value
      i == first_match(data.tasks, task_id)
  IN  IF i = 0
        THEN [file |-> save_tasks(data), value |-> FALSE, exc |-> None,
              saves |-> l.saves + 1]
        ELSE [file |-> save_tasks([data EXCEPT !.tasks[i] = dict_update(@, updates)]),
              value |-> TRUE, exc |-> None, saves |-> l.saves + 1]

\* update_task(task_id, updates) that goes on behind the first match
update_task_every_match(f, task_id, updates) ==
  LET l == load_tasks(f)
      data == l.value
      i == first_match(data.tasks, task_id)
  IN  IF i = 0
        THEN [file |-> l.file, value |-> FALSE, exc |-> None, saves |-> l.saves]
        ELSE [file |-> save_tasks([data EXCEPT !.tasks =
                         [j \in 1..Len(@) |-> IF @[j].id = task_id
                                                THEN dict_update(@[j], updates)
                                                ELSE @[j]]]),
              value |-> TRUE, exc |-> None, saves |-> l.saves + 1]

\* update_task(task_id, updates): update the first match and save, else False
update_task(f, task_id, updates) ==
  LET l == load_tasks(f)
      data == l.value
      i == first_match(data.tasks, task_id)
  IN  IF i = 0
        THEN [file |-> l.file, value |-> FALSE, exc |-> None, saves |-> l.saves]
        ELSE [file |-> save_tasks([data EXCEPT !.tasks[i] = dict_update(@, updates)]),
              value |-> TRUE, exc |-> None, saves |-> l.saves + 1]

\* list.pop(i)
pop(s, i) == SubSeq(s, 1, i - 1) \o SubSeq(s, i + 1, Len(s))

\* remove_task(task_id) that drops every task with that id
remove_task_every_match(f, task_id) ==
  LET l == load_tasks(f)
      data == l.value
      i == first_match(data.tasks, task_id)
  IN  IF i = 0
        THEN [file |-> l.file, value |-> None, exc |-> None, saves |-> l.saves]
        ELSE [file |-> save_tasks([data EXCEPT
                         !.tasks = SelectSeq(@, LAMBDA t : t.id # task_id)]),
              value |-> Some(data.tasks[i]), exc |-> None, saves |-> l.saves + 1]

\* remove_task(task_id) that pops the last task with that id
remove_task_last_match(f, task_id) ==
  LET l == load_tasks(f)
      data == l.value
      i == first_match(data.tasks, task_id)
      k == Max({j \in 1..Len(data.tasks) : data.tasks[j].id = task_id})
  IN  IF i = 0
        THEN [file |-> l.file, value |-> None, exc |-> None, saves |-> l.saves]
        ELSE [file |-> save_tasks([data EXCEPT !.tasks = pop(@, k)]),
              value |-> Some(data.tasks[k]), exc |-> None, saves |-> l.saves + 1]

\* remove_task(task_id) that saves behind the loop, found or not
remove_task_save_on_miss(f, task_id) ==
  LET l == load_tasks(f)
      data == l.value
      i == first_match(data.tasks, task_id)
  IN  IF i = 0
        THEN [file |-> save_tasks(data), value |-> None, exc |-> None,
              saves |-> l.saves + 1]
        ELSE [file |-> save_tasks([data EXCEPT !.tasks = pop(@, i)]),
              value |-> Some(data.tasks[i]), exc |-> None, saves |-> l.saves + 1]

\* remove_task(task_id): pop the first match, save and return it, else None
remove_task(f, task_id) ==
  LET l == load_tasks(f)
      data == l.value
      i == first_match(data.tasks, task_id)
  IN  IF i = 0
        THEN [file |-> l.file, value |-> None, exc |-> None, saves |-> l.saves]
        ELSE [file |-> save_tasks([data EXCEPT !.tasks = pop(@, i)]),
              value |-> Some(data.tasks[i]), exc |-> None, saves |-> l.saves + 1]

\* ------------------------------------------------------- filter and sort
PRIORITY_ORDER == [critical |-> 0, high |-> 1, medium |-> 2, low |-> 3]

\* PRIORITY_ORDER.get(priority, 999)
rank(priority) == Get(PRIORITY_ORDER, priority, 999)

\* the sort key of a task: (priority rank, created)
sort_key(t) == <<rank(t.priority), t.created>>

\* Python's tuple <: the first differing component decides
KeyLess(a, b) == a[1] < b[1] \/ (a[1] = b[1] /\ StrLess(a[2], b[2]))

\* a step that puts x before the elements of equal key
insert_before_equal(sorted, x) ==
  LET k == Cardinality({i \in 1..Len(sorted) : KeyLess(sort_key(sorted[i]), sort_key(x))})
  IN  SubSeq(sorted, 1, k) \o <<x>> \o SubSeq(sorted, k + 1, Len(sorted))

\* one step of the stable sort: x goes behind every element whose key is not larger
insert(sorted, x) ==
  LET k == Cardinality({i \in 1..Len(sorted) : ~KeyLess(sort_key(x), sort_key(sorted[i]))})
  IN  SubSeq(sorted, 1, k) \o <<x>> \o SubSeq(sorted, k + 1, Len(sorted))

\* list.sort(key=...): stable, ascending
RECURSIVE sort(_)
sort(s) ==
  IF s = <<>> THEN <<>>
  ELSE insert(sort(SubSeq(s, 1, Len(s) - 1)), s[Len(s)])

\* `if criterion is not None:`
truthy_is_not_none(c) == c # None

\* `if criterion:`: None and the empty string are falsy
truthy(c) == c # None /\ c[1] # ""

\* filter_tasks(...) that saves the document whose list it sorted in place
filter_tasks_saves_sorted(f, c) ==
  LET l == load_tasks(f)
      data == l.value
      t0 == data.tasks
      t1 == IF truthy(c.component)
              THEN SelectSeq(t0, LAMBDA t : t["component"] = c.component[1]) ELSE t0
      t2 == IF truthy(c.tag)
              THEN SelectSeq(t1, LAMBDA t : c.tag[1] \in Range(Get(t, "tags", <<>>))) ELSE t1
      t3 == IF truthy(c.status)
              THEN SelectSeq(t2, LAMBDA t : t["status"] = c.status[1]) ELSE t2
      t4 == IF truthy(c.priority)
              THEN SelectSeq(t3, LAMBDA t : t["priority"] = c.priority[1]) ELSE t3
  IN  [file |-> save_tasks([data EXCEPT !.tasks = sort(t0)]), value |-> sort(t4),
       exc |-> None, saves |-> l.saves + 1]

\* filter_tasks(component, tag, status, priority)
filter_tasks(f, c) ==
  LET l == load_tasks(f)
      data == l.value
      t0 == data.tasks
      t1 == IF truthy(c.component)
              THEN SelectSeq(t0, LAMBDA t : t["component"] = c.component[1]) ELSE t0
      t2 == IF truthy(c.tag)
              THEN SelectSeq(t1, LAMBDA t : c.tag[1] \in Range(Get(t, "tags", <<>>))) ELSE t1
      t3 == IF truthy(c.status)
              THEN SelectSeq(t2, LAMBDA t : t["status"] = c.status[1]) ELSE t2
      t4 == IF truthy(c.priority)
              THEN SelectSeq(t3, LAMBDA t : t["priority"] = c.priority[1]) ELSE t3
  IN  [file |-> l.file, value |-> sort(t4), exc |-> None, saves |-> l.saves]

\* ---------------------------------------------------------------- inputs
\* the dicts callers pass to add_task: the required fields alone; every field,
\* the store-managed ones included; title missing; component missing
AddInputs ==
  { [title |-> "T", component |-> "api"],
    [title |-> "T", component |-> "ui", description |-> "d", priority |-> "critical",
     tags |-> <<"x">>, notes |-> "n", acceptance |-> <<"a">>, id |-> 7,
     status |-> "done", started |-> Some("now"), created |-> <<"1">>],
    [component |-> "api"],
    [title |-> "T"] }

\* the ids callers pass to find_task, update_task and remove_task
TaskIds == 1..(MaxAdds + 1)

\* the mappings callers pass to update_task
UpdateInputs ==
  { <<>>,
    [id |-> 1],
    [status |-> "done", extra |-> "e"] }

\* the criteria callers pass to filter_tasks: each absent, empty or a value
Criteria ==
  [component : {None, Some(""), Some("api")},
   tag : {None, Some(""), Some("x")},
   status : {None, Some(""), Some("pending")},
   priority : {None, Some(""), Some("critical")}]

\* the criteria of the runs that also change the document
MainCriteria ==
  { c \in Criteria : c.tag = None /\ c.priority = None /\ c.status # Some("") }

\* the processes that call the library on one backing file
Writers == {"w1", "w2"}

\* the inputs of the add_task calls that return
ValidAddInputs == {t \in AddInputs : {"title", "component"} \subseteq DOMAIN t}

\* ---------------------------------------------------------------- state
\* a process that is in no call; task, data and task_id are the locals of
\* add_task, without meaning while the process is idle
Idle == [pc |-> "idle", task |-> [title |-> "", component |-> ""],
         data |-> EmptyDocument, task_id |-> 0]

Tasks == IF file = None THEN <<>> ELSE json_load(file[1]).tasks

Init ==
  /\ file = None
  /\ today = 9
  /\ last = [op |-> "start"]
  /\ returned = <<>>
  /\ writers = [p \in Writers |-> Idle]
  /\ overlapped = FALSE

\* `last` names what a call returned by its type: ret_id an id, new_id the
\* Optional id of add_task (None when it raised), ret_ok a bool, ret_task an
\* Optional task, ret_tasks a list of tasks
InitTasks ==
  /\ LET r == init_tasks(file)
     IN  /\ file' = r.file
         /\ last' = [op |-> "init_tasks", exc |-> r.exc, saves |-> r.saves]
  /\ UNCHANGED <<today, returned, writers, overlapped>>

NextId ==
  /\ LET r == next_id(file)
     IN  /\ file' = r.file
         /\ last' = [op |-> "next_id", ret_id |-> r.value, exc |-> r.exc,
                     saves |-> r.saves]
  /\ UNCHANGED <<today, returned, writers, overlapped>>

FindTask(task_id) ==
  /\ LET r == find_task(file, task_id)
     IN  /\ file' = r.file
         /\ last' = [op |-> "find_task", task_id |-> task_id, ret_task |-> r.value,
                     exc |-> r.exc, saves |-> r.saves]
  /\ UNCHANGED <<today, returned, writers, overlapped>>

AddTask(task, limit) ==
  /\ Len(returned) < limit
  /\ LET r == add_task(file, task, today)
     IN  /\ file' = r.file
         /\ last' = [op |-> "add_task", task |-> task, new_id |-> r.value,
                     exc |-> r.exc, saves |-> r.saves]
         /\ returned' = IF r.exc = None THEN Append(returned, r.value[1]) ELSE returned
  /\ UNCHANGED <<today, writers, overlapped>>

UpdateTask(task_id, updates) ==
  /\ LET r == update_task(file, task_id, updates)
     IN  /\ file' = r.file
         /\ last' = [op |-> "update_task", task_id |-> task_id, updates |-> updates,
                     ret_ok |-> r.value, exc |-> r.exc, saves |-> r.saves]
  /\ UNCHANGED <<today, returned, writers, overlapped>>

RemoveTask(task_id) ==
  /\ LET r == remove_task(file, task_id)
     IN  /\ file' = r.file
         /\ last' = [op |-> "remove_task", task_id |-> task_id, ret_task |-> r.value,
                     exc |-> r.exc, saves |-> r.saves]
  /\ UNCHANGED <<today, returned, writers, overlapped>>

FilterTasks(c) ==
  /\ LET r == filter_tasks(file, c)
     IN  /\ file' = r.file
         /\ last' = [op |-> "filter_tasks", criteria |-> c, ret_tasks |-> r.value,
                     exc |-> r.exc, saves |-> r.saves]
  /\ UNCHANGED <<today, returned, writers, overlapped>>

\* midnight passes: date.today() moves to the next day
Tick ==
  /\ today < 9 + MaxTicks
  /\ today' = today + 1
  /\ last' = [op |-> "tick"]
  /\ UNCHANGED <<file, returned, writers, overlapped>>

\* every operation of the library, called by one process within one day
Next ==
  \/ InitTasks
  \/ NextId
  \/ \E task \in AddInputs : AddTask(task, MaxAdds)
  \/ \E task_id \in TaskIds : FindTask(task_id)
  \/ \E task_id \in TaskIds, updates \in UpdateInputs : UpdateTask(task_id, updates)
  \/ \E task_id \in TaskIds : RemoveTask(task_id)
  \/ \E c \in MainCriteria : FilterTasks(c)

Spec == Init /\ [][Next]_vars

\* only add_task (and the next_id query) over several days
NextAdd ==
  \/ \E task \in AddInputs : AddTask(task, MaxSeqAdds)
  \/ NextId
  \/ Tick

SpecAdd == Init /\ [][NextAdd]_vars

\* only add_task and remove_task
NextAddRemove ==
  \/ \E task \in AddInputs : AddTask(task, MaxSeqAdds)
  \/ \E task_id \in 1..MaxSeqAdds : RemoveTask(task_id)

SpecAddRemove == Init /\ [][NextAddRemove]_vars

\* ------------------------------------------------ queries of a stored document
\* what update_task calls have made of the tasks of the queried documents
QuerySamples ==
  { [priority |-> "low", tags |-> <<"x">>],
    [priority |-> "critical", created |-> isoformat(9), component |-> "ui",
     status |-> "done", tags |-> <<"x">>],
    [priority |-> "high", created |-> isoformat(9), tags |-> <<"x">>],
    [component |-> "", status |-> ""],
    [priority |-> "urgent"],
    [priority |-> "someday", created |-> isoformat(9), status |-> "done",
     tags |-> <<"x">>] }

\* the i-th task add_task({title: "T", component: "api"}) stored on the 10th,
\* after update_task(i, updates)
StoredTask(i, updates) ==
  dict_update(new_task([title |-> "T", component |-> "api"], i, 10), updates)

StoredLists == UNION {[1..n -> QuerySamples] : n \in 0..MaxStored}

\* the program starts on a document that earlier runs have written
InitQuery ==
  /\ \E s \in StoredLists :
        file = save_tasks([version |-> "1.0",
                           tasks |-> [i \in 1..Len(s) |-> StoredTask(i, s[i])]])
  /\ today = 10
  /\ last = [op |-> "start"]
  /\ returned = <<>>
  /\ writers = [p \in Writers |-> Idle]
  /\ overlapped = FALSE

\* one query per run: a query leaves the document as it found it
NextQuery ==
  /\ last.op = "start"
  /\ \/ \E c \in Criteria : FilterTasks(c)
     \/ \E task_id \in 1..(MaxStored + 1) : FindTask(task_id)

SpecQuery == InitQuery /\ [][NextQuery]_vars

\* ------------------------------------------- add_task, one file access a step
\* Two processes call add_task on one file.  Nothing orders the file accesses
\* of one process against those of the other, so a call is three steps: the
\* load of add_task, the load inside next_id, and the save.

\* the calls that have started: those that returned and those in progress
Started == Len(returned) + Cardinality({q \in Writers : writers[q].pc # "idle"})

\* p enters add_task(task): data = load_tasks()
WriterLoad(p, task) ==
  /\ writers[p].pc = "idle"
  /\ Started < MaxRaceAdds
  /\ LET l == load_tasks(file)
     IN  /\ file' = l.file
         /\ writers' = [writers EXCEPT ![p] = [pc |-> "loaded", task |-> task,
                                               data |-> l.value, task_id |-> 0]]
  /\ overlapped' = (overlapped \/ \E q \in Writers \ {p} : writers[q].pc # "idle")
  /\ last' = [op |-> "load_tasks", writer |-> p]
  /\ UNCHANGED <<today, returned>>

\* p goes on: task_id = next_id(), which loads the file again
WriterNextId(p) ==
  /\ writers[p].pc = "loaded"
  /\ LET n == next_id(file)
     IN  /\ file' = n.file
         /\ writers' = [writers EXCEPT ![p].pc = "allocated", ![p].task_id = n.value]
  /\ last' = [op |-> "next_id_inside", writer |-> p]
  /\ UNCHANGED <<today, returned, overlapped>>

\* the last step, on a document read again at that moment
WriterSaveReloaded(p) ==
  /\ writers[p].pc = "allocated"
  /\ LET w == writers[p]
     IN  /\ file' = save_tasks([load_tasks(file).value EXCEPT
                       !.tasks = Append(@, new_task(w.task, w.task_id, today))])
         /\ returned' = Append(returned, w.task_id)
         /\ last' = [op |-> "add_task", task |-> w.task, new_id |-> Some(w.task_id),
                     exc |-> None, saves |-> 1]
  /\ writers' = [writers EXCEPT ![p] = Idle]
  /\ UNCHANGED <<today, overlapped>>

\* p builds the record, appends it to the document it loaded, saves that
\* document and returns the id
WriterSave(p) ==
  /\ writers[p].pc = "allocated"
  /\ LET w == writers[p]
     IN  /\ file' = save_tasks([w.data EXCEPT
                       !.tasks = Append(@, new_task(w.task, w.task_id, today))])
         /\ returned' = Append(returned, w.task_id)
         /\ last' = [op |-> "add_task", task |-> w.task, new_id |-> Some(w.task_id),
                     exc |-> None, saves |-> 1]
  /\ writers' = [writers EXCEPT ![p] = Idle]
  /\ UNCHANGED <<today, overlapped>>

NextRace ==
  \E p \in Writers :
     \/ \E task \in ValidAddInputs : WriterLoad(p, task)
     \/ WriterNextId(p)
     \/ WriterSave(p)

SpecRace == Init /\ [][NextRace]_vars

\* ================================================================ claims
\* the last call was an add_task that returned an id
Added == last.op = "add_task" /\ last.exc = None

\* C1: under add_task calls alone, the id an add_task returns differs from every
\* id an earlier add_task returned.
C1_ReturnedIdsDistinct ==
  \A i, j \in 1..Len(returned) : i # j => returned[i] # returned[j]

\* four add_task calls have returned, on more than one day
C1_Witness == Added /\ Len(returned) = MaxSeqAdds /\ today > 9

\* some stored task has this id
Stored(task_id) == \E i \in 1..Len(Tasks) : Tasks[i].id = task_id

\* the number of stored tasks with this id
Count(tasks, task_id) == Cardinality({i \in 1..Len(tasks) : tasks[i].id = task_id})

\* C2, as claimed: whatever add_task, update_task and remove_task calls were
\* made, no two stored records have the same id.
C2_IdsUnique ==
  \A i, j \in 1..Len(Tasks) : i # j => Tasks[i].id # Tasks[j].id

\* the step is an update_task call whose mapping names id
IdUpdate == last'.op = "update_task" /\ "id" \in DOMAIN last'.updates

\* C2, amended: the ids of the empty store are unique, and every call but an
\* update_task whose mapping names id keeps them unique.
C2_IdsUniqueWithoutIdUpdate ==
  /\ C2_IdsUnique
  /\ [][(C2_IdsUnique /\ ~IdUpdate) => C2_IdsUnique']_vars

\* an update_task that names no id has changed the second of two tasks
C2_Witness ==
  /\ last.op = "update_task" /\ last.ret_ok
  /\ "status" \in DOMAIN last.updates
  /\ Len(Tasks) = 2 /\ "extra" \in DOMAIN Tasks[2]
  /\ C2_IdsUnique

\* C3, as claimed: under add_task and remove_task calls, every id add_task
\* returns is greater than all it returned before.
C3_ReturnedIdsIncrease ==
  \A i, j \in 1..Len(returned) : i < j => returned[i] < returned[j]

\* C3, amended: the id add_task returns is greater than the id of every task
\* stored when it was called, so the stored ids increase in arrival order.
C3_AddedIdAboveStored ==
  /\ Added => \A i \in 1..(Len(Tasks) - 1) : Tasks[i].id < last.new_id[1]
  /\ \A i, j \in 1..Len(Tasks) : i < j => Tasks[i].id < Tasks[j].id

\* add_task has returned an id above those of two stored tasks, after a removal
C3_Witness == Added /\ Len(Tasks) = 3 /\ Len(returned) = 4 /\ last.new_id[1] = 4

\* the step is a remove_task call for an id that some stored task has
RemoveHit == last'.op = "remove_task" /\ Stored(last'.task_id)

\* C4, as claimed: remove_task of a stored id returns a record of the list as it
\* was, and the list then has no record with that id.
C4_RemoveLeavesNoSuchId ==
  [][RemoveHit =>
       /\ \E i \in 1..Len(Tasks) : last'.ret_task = Some(Tasks[i])
       /\ \A i \in 1..Len(Tasks') : Tasks'[i].id # last'.task_id]_vars

\* C4, amended: remove_task of a stored id returns the first record with that id
\* of the list as it was, and the list then has one record fewer with that id.
C4_RemoveReturnsFirstMatch ==
  [][RemoveHit =>
       /\ \E i \in 1..Len(Tasks) :
            /\ Tasks[i].id = last'.task_id
            /\ \A j \in 1..(i - 1) : Tasks[j].id # last'.task_id
            /\ last'.ret_task = Some(Tasks[i])
       /\ Count(Tasks', last'.task_id) = Count(Tasks, last'.task_id) - 1]_vars

\* remove_task has returned a record whose id a second record still has
C4_Witness ==
  /\ last.op = "remove_task" /\ last.ret_task # None
  /\ last.ret_task[1].id = last.task_id
  /\ Stored(last.task_id)

\* the step is an update_task call for an id that no stored task has
UpdateMiss == last'.op = "update_task" /\ ~Stored(last'.task_id)

\* C5, as claimed: update_task of an id that is not stored returns False, saves
\* nothing and leaves the file as it was.
C5_UpdateMissTouchesNothing ==
  [][UpdateMiss => last'.ret_ok = FALSE /\ last'.saves = 0 /\ file' = file]_vars

\* C5, amended: update_task of an id that is not stored returns False; it saves
\* nothing and leaves an existing file as it was, and an absent file it
\* initializes, by one save, to the empty document.
C5_UpdateMissOnlyInitializes ==
  [][UpdateMiss =>
       /\ last'.ret_ok = FALSE
       /\ IF file = None
            THEN file' = Some(json_dump([version |-> "1.0", tasks |-> <<>>]))
                 /\ last'.saves = 1
            ELSE file' = file /\ last'.saves = 0]_vars

\* update_task has missed on a document of two tasks, its mapping not empty
C5_Witness ==
  /\ last.op = "update_task" /\ last.ret_ok = FALSE
  /\ last.updates # <<>>
  /\ Len(Tasks) = 2 /\ ~Stored(last.task_id)

\* how often each element occurs in a sequence
BagOfSeq(s) == [x \in Range(s) |-> Cardinality({i \in 1..Len(s) : s[i] = x})]

\* the last call was filter_tasks
Filtered == last.op = "filter_tasks"

\* the task meets every criterion that Applies: component, status and priority
\* by equality, tag by membership in the task's tags
Meets(t, c, Applies(_)) ==
  /\ Applies(c.component) => t.component = c.component[1]
  /\ Applies(c.tag) => \E i \in 1..Len(t.tags) : t.tags[i] = c.tag[1]
  /\ Applies(c.status) => t.status = c.status[1]
  /\ Applies(c.priority) => t.priority = c.priority[1]

\* the criterion was passed
Supplied(x) == x # None

\* the criterion was passed and is not the empty string
SuppliedNonEmpty(x) == x # None /\ x # Some("")

\* C6, as claimed: filter_tasks returns, each once, exactly the stored tasks that
\* meet every criterion supplied.
C6_FilterConjunctive ==
  Filtered =>
    BagOfSeq(last.ret_tasks) =
      BagOfSeq(SelectSeq(Tasks, LAMBDA t : Meets(t, last.criteria, Supplied)))

\* C6, amended: filter_tasks returns, each once, exactly the stored tasks that
\* meet every supplied criterion that is not the empty string.
C6_FilterConjunctiveNonEmpty ==
  Filtered =>
    BagOfSeq(last.ret_tasks) =
      BagOfSeq(SelectSeq(Tasks, LAMBDA t : Meets(t, last.criteria, SuppliedNonEmpty)))

\* filter_tasks with component, status and an empty tag has returned some of
\* three stored tasks and left out others
C6_Witness ==
  /\ Filtered
  /\ last.criteria.component = Some("api") /\ last.criteria.status = Some("pending")
  /\ last.criteria.tag = Some("") /\ last.criteria.priority = None
  /\ Len(Tasks) = 3 /\ Len(last.ret_tasks) = 2
  /\ \E i \in 1..3 : Tasks[i].component = "api" /\ Tasks[i].status = "done"
  /\ \E i \in 1..3 : Tasks[i].tags = <<>> /\ Tasks[i].status = "pending"

\* the rank of a priority: critical, high, medium, low, then all others alike
PriorityRank(p) ==
  CASE p = "critical" -> 1 [] p = "high" -> 2 [] p = "medium" -> 3 [] p = "low" -> 4
    [] OTHER -> 5

\* a sorts before b by (priority rank, created)
Before(a, b) ==
  \/ PriorityRank(a.priority) < PriorityRank(b.priority)
  \/ PriorityRank(a.priority) = PriorityRank(b.priority) /\ StrLess(a.created, b.created)

\* the places of a task in the stored sequence
Places(t) == {i \in 1..Len(Tasks) : Tasks[i] = t}

\* C7: what filter_tasks returns is in ascending order of (priority rank, created),
\* unknown priorities ranking last and alike, and tasks of equal key are in the
\* order of the stored sequence, each stored task returned at most once.
C7_SortedAndStable ==
  Filtered =>
    LET r == last.ret_tasks
    IN  \A i, j \in 1..Len(r) :
          i < j =>
            /\ ~Before(r[j], r[i])
            /\ Places(r[i]) # {} /\ Places(r[j]) # {}
            /\ ~Before(r[i], r[j]) =>
                 \A m \in Places(r[i]), n \in Places(r[j]) : m < n

\* filter_tasks without criteria has reordered three tasks: two of distinct
\* unknown priorities, by created, and two of one key, kept in stored order
C7_Witness ==
  /\ Filtered /\ \A k \in DOMAIN last.criteria : last.criteria[k] = None
  /\ Len(last.ret_tasks) = 3 /\ last.ret_tasks # Tasks
  /\ last.ret_tasks[1].priority = "someday"
  /\ last.ret_tasks[2].priority = "urgent"
  /\ last.ret_tasks[3].priority = "urgent"
  /\ last.ret_tasks[2].id < last.ret_tasks[3].id

C9_InitKeepsExistingFile ==
  [][/\ last'.op = "init_tasks" =>
          IF file = None
            THEN file' = Some(json_dump([version |-> "1.0", tasks |-> <<>>]))
            ELSE file' = file /\ last'.saves = 0
     /\ (last'.op \in {"next_id", "find_task", "filter_tasks"} /\ file # None) =>
          file' = file /\ last'.saves = 0]_vars

\* init_tasks has returned on a document of two tasks, which it left in place
C9_Witness == last.op = "init_tasks" /\ last.saves = 0 /\ Len(Tasks) = 2

\* C10: from an empty store and under add_task calls alone, next_id() is the
\* number of stored tasks plus one.
C10_NextIdIsCountPlusOne == next_id(file).value = Len(Tasks) + 1

\* next_id() has returned 4 for a list of three tasks
C10_Witness == last.op = "next_id" /\ Len(Tasks) = 3 /\ last.ret_id = 4

\* the step is an add_task call whose input lacks title or component
AddMissingField ==
  /\ last'.op = "add_task"
  /\ ~({"title", "component"} \subseteq DOMAIN last'.task)

\* C11, as claimed: add_task of an input without title or without component
\* raises, returns no id, creates no task and leaves the file as it was.
C11_MissingFieldTouchesNothing ==
  [][AddMissingField =>
       /\ last'.exc # None /\ last'.new_id = None
       /\ returned' = returned
       /\ Tasks' = Tasks
       /\ file' = file]_vars

\* C11, amended: add_task of an input without title or without component raises
\* KeyError, returns no id and creates no task; an existing file it leaves as it
\* was, with no save, and an absent file its load initializes, by one save, to
\* the empty document.
C11_MissingFieldOnlyInitializes ==
  [][AddMissingField =>
       /\ last'.exc = Some("KeyError") /\ last'.new_id = None
       /\ returned' = returned
       /\ Tasks' = Tasks
       /\ IF file = None
            THEN file' = Some(json_dump([version |-> "1.0", tasks |-> <<>>]))
                 /\ last'.saves = 1
            ELSE file' = file /\ last'.saves = 0]_vars

\* add_task has raised for an input without component, on a document of one task
C11_Witness ==
  /\ last.op = "add_task" /\ last.exc = Some("KeyError")
  /\ "component" \notin DOMAIN last.task
  /\ Len(Tasks) = 1

\* the step is a find_task or a filter_tasks call
Query == last'.op \in {"find_task", "filter_tasks"}

\* C12, as claimed: find_task and filter_tasks, whatever their arguments, save
\* nothing and leave the file, the order of its tasks included, as it was.
C12_QueriesTouchNothing ==
  [][Query => last'.saves = 0 /\ file' = file]_vars

\* C12, amended: find_task and filter_tasks leave the stored tasks as they were,
\* in their order; an existing file they leave as it was, with no save, and an
\* absent file their load initializes, by one save, to the empty document.
C12_QueriesOnlyInitialize ==
  [][Query =>
       /\ Tasks' = Tasks
       /\ returned' = returned
       /\ IF file = None
            THEN file' = Some(json_dump([version |-> "1.0", tasks |-> <<>>]))
                 /\ last'.saves = 1
            ELSE file' = file /\ last'.saves = 0]_vars

\* filter_tasks without criteria has returned two tasks in another order than
\* the stored one
C12_Witness ==
  /\ last.op = "filter_tasks"
  /\ last.criteria.component = None /\ last.criteria.status = None
  /\ Len(Tasks) = 2
  /\ last.ret_tasks = <<Tasks[2], Tasks[1]>>
  /\ Tasks[1] # Tasks[2]

\* the step is an update_task call for an id that some stored task has
UpdateHit == last'.op = "update_task" /\ Stored(last'.task_id)

\* C13: update_task of a stored id returns True, and the document afterwards
\* differs from the one before only in the first record with that id: that
\* record has every key of updates set to the value of updates, new keys added,
\* and its other fields as they were; the other records, the number of records,
\* their order and the version are as they were.
C13_UpdateHitChangesFirstMatchOnly ==
  [][UpdateHit =>
       /\ last'.ret_ok = TRUE
       /\ json_load(file'[1]).version = json_load(file[1]).version
       /\ Len(Tasks') = Len(Tasks)
       /\ \E i \in 1..Len(Tasks) :
            /\ Tasks[i].id = last'.task_id
            /\ \A j \in 1..(i - 1) : Tasks[j].id # last'.task_id
            /\ \A j \in 1..Len(Tasks) : j # i => Tasks'[j] = Tasks[j]
            /\ DOMAIN Tasks'[i] = DOMAIN Tasks[i] \cup DOMAIN last'.updates
            /\ \A k \in DOMAIN last'.updates : Tasks'[i][k] = last'.updates[k]
            /\ \A k \in DOMAIN Tasks[i] \ DOMAIN last'.updates :
                 Tasks'[i][k] = Tasks[i][k]]_vars

\* update_task has added a field to the first of two records of one id, and the
\* second is without it
C13_Witness ==
  /\ last.op = "update_task" /\ last.ret_ok = TRUE
  /\ "extra" \in DOMAIN last.updates
  /\ Len(Tasks) = 2
  /\ Tasks[1].id = Tasks[2].id /\ Tasks[1].id = last.task_id
  /\ "extra" \in DOMAIN Tasks[1]
  /\ "extra" \notin DOMAIN Tasks[2]

\* the step is an add_task call that returned an id
AddReturned == last'.op = "add_task" /\ last'.exc = None

\* C14: when add_task returns an id, the stored list afterwards is the list
\* before with one record behind it; the records before are as they were and in
\* their order, and the id returned is the id of the last record.
C14_AddAppendsLast ==
  [][AddReturned =>
       /\ Len(Tasks') = Len(Tasks) + 1
       /\ SubSeq(Tasks', 1, Len(Tasks)) = Tasks
       /\ Tasks'[Len(Tasks')].id = last'.new_id[1]
       /\ Tasks'[Len(Tasks')].title = last'.task["title"]]_vars

\* add_task has put its record behind a record that update_task had changed
C14_Witness ==
  /\ Added
  /\ Len(Tasks) = 2
  /\ "extra" \in DOMAIN Tasks[1]
  /\ Tasks[2].id = last.new_id[1]

\* C15: when remove_task returns a record, the stored list afterwards is the
\* list before without the first record of that id: the records in front of it
\* and behind it are as they were and in their order, later records of the same
\* id included.
C15_RemoveDeletesFirstMatchOnly ==
  [][RemoveHit =>
       /\ last'.ret_task # None
       /\ \E i \in 1..Len(Tasks) :
            /\ Tasks[i].id = last'.task_id
            /\ \A j \in 1..(i - 1) : Tasks[j].id # last'.task_id
            /\ Len(Tasks') = Len(Tasks) - 1
            /\ \A j \in 1..(i - 1) : Tasks'[j] = Tasks[j]
            /\ \A j \in (i + 1)..Len(Tasks) : Tasks'[j - 1] = Tasks[j]]_vars

\* remove_task has deleted the first of two differing records of one id, and
\* the second is the one that is left
C15_Witness ==
  /\ last.op = "remove_task" /\ last.ret_task # None
  /\ Len(Tasks) = 1
  /\ Tasks[1].id = last.task_id
  /\ Tasks[1] # last.ret_task[1]

\* the step is a remove_task or a find_task call for an id that no stored task has
LookupMiss == last'.op \in {"remove_task", "find_task"} /\ ~Stored(last'.task_id)

\* C16, as claimed: remove_task and find_task of an id that is not stored return
\* None and do not raise, and remove_task saves nothing and leaves the file as
\* it was.
C16_MissReturnsNoneWritesNothing ==
  [][LookupMiss =>
       /\ last'.ret_task = None /\ last'.exc = None
       /\ last'.op = "remove_task" => last'.saves = 0 /\ file' = file]_vars

\* C16, amended: remove_task and find_task of an id that is not stored return
\* None and do not raise; remove_task then leaves the stored tasks as they were,
\* an existing file as it was, with no save, and an absent file its load
\* initializes, by one save, to the empty document.
C16_MissReturnsNoneOnlyInitializes ==
  [][LookupMiss =>
       /\ last'.ret_task = None /\ last'.exc = None
       /\ last'.op = "remove_task" =>
            /\ Tasks' = Tasks
            /\ IF file = None
                 THEN file' = Some(json_dump([version |-> "1.0", tasks |-> <<>>]))
                      /\ last'.saves = 1
                 ELSE file' = file /\ last'.saves = 0]_vars

\* remove_task has missed on a document of two tasks
C16_Witness ==
  /\ last.op = "remove_task" /\ last.ret_task = None
  /\ Len(Tasks) = 2
  /\ ~Stored(last.task_id)

\* some public operation has been called
Called == last.op # "start"

\* C17: once a public operation has been called the file exists, and its
\* document has exactly the keys version and tasks, version being the string
\* "1.0" the initialization wrote and tasks a list; so no operation changes the
\* version or drops the tasks key.
C17_DocumentShape ==
  Called =>
    /\ file # None
    /\ DOMAIN json_load(file[1]) = {"version", "tasks"}
    /\ json_load(file[1]).version = "1.0"
    /\ DOMAIN json_load(file[1]).tasks = 1..Len(json_load(file[1]).tasks)

\* remove_task has emptied a document that add_task and update_task had written
C17_Witness ==
  /\ last.op = "remove_task" /\ last.ret_task # None
  /\ "extra" \in DOMAIN last.ret_task[1]
  /\ file # None /\ Tasks = <<>>
  /\ Len(returned) = 1

\* the step is an add_task or a remove_task call
AddOrRemove == last'.op \in {"add_task", "remove_task"}

\* C19: with one writer, an id add_task returns is above the id of every record
\* stored when it was called, and is 1 when none was stored; ids that were
\* distinct before an add_task or a remove_task are distinct after it; and a
\* step that takes distinct ids to a duplicate is an update_task whose mapping
\* has the key id.
C19_OnlyIdUpdateDuplicates ==
  [][/\ AddReturned =>
          /\ \A i \in 1..Len(Tasks) : Tasks[i].id < last'.new_id[1]
          /\ Tasks = <<>> => last'.new_id[1] = 1
     /\ (C2_IdsUnique /\ AddOrRemove) => C2_IdsUnique'
     /\ (C2_IdsUnique /\ ~C2_IdsUnique') => IdUpdate]_vars

\* add_task has returned 2 for a list of one record, of id 1, that update_task
\* had changed, and the two ids are distinct
C19_Witness ==
  /\ Added
  /\ last.new_id[1] = 2
  /\ Len(Tasks) = 2
  /\ Tasks[1].id = 1 /\ Tasks[1].status = "done"
  /\ C2_IdsUnique

\* the criteria with every empty string taken for a criterion that is not given
WithoutEmpty(c) == [k \in DOMAIN c |-> IF c[k] = Some("") THEN None ELSE c[k]]

\* C20: filter_tasks with empty strings among its criteria returns what it
\* returns when those criteria are not given at all: an empty string filters
\* nothing, it does not select the tasks whose field is the empty string.
C20_EmptyCriterionIsAbsent ==
  Filtered => last.ret_tasks = filter_tasks(file, WithoutEmpty(last.criteria)).value

\* filter_tasks with component "" and status "" has returned all three stored
\* tasks, one of which has the component "" and the status ""
C20_Witness ==
  /\ Filtered
  /\ last.criteria.component = Some("") /\ last.criteria.status = Some("")
  /\ last.criteria.tag = None /\ last.criteria.priority = None
  /\ Len(Tasks) = 3 /\ Len(last.ret_tasks) = 3
  /\ \E i \in 1..3 : Tasks[i].component = "" /\ Tasks[i].status = ""
  /\ \E i \in 1..3 : Tasks[i].component = "api" /\ Tasks[i].status = "pending"

\* no add_task call is in progress
AllIdle == \A p \in Writers : writers[p].pc = "idle"

\* an id that add_task returned is the id of no stored task
LostTask == \E i \in 1..Len(returned) : returned[i] \notin ids(Tasks)

\* C18: two processes call add_task, their loads and saves interleaved, and no
\* remove_task is called.  Once all calls have returned, an id that add_task
\* returned is missing from the stored document, or two calls have returned the
\* same id, exactly when two of the calls ran at the same time; the witness is
\* such a state.
C18_OverlapLosesUpdate ==
  AllIdle => (overlapped <=> (LostTask \/ ~C1_ReturnedIdsDistinct))

\* three calls have returned three different ids, and a task that one of them
\* stored is gone
C18_Witness ==
  /\ AllIdle
  /\ Len(returned) = 3
  /\ C1_ReturnedIdsDistinct
  /\ LostTask
====
